---- MODULE Spec2Model ----
(***************************************************************************)
(* Model of the arena allocator of alloc.h (src/alloc.h, with the          *)
(* standalone copy src/allocators/arena.h): a chain of blocks linked by    *)
(* next pointers, first-fit bump allocation, the stb_ds growth schedule,   *)
(* reset, snapshot/rewind, scratch scopes and teardown.                    *)
(*                                                                         *)
(* Sizes are in bytes on an LP64 target: alignof(max_align_t) = 16 and     *)
(* sizeof(arena_block_t) = 24.                                             *)
(*                                                                         *)
(* A size_t value v is held as its two's-complement representative: v      *)
(* itself below 2^63, v - 2^64 from 2^63 on (SIZE_MAX is -1).  Sums and    *)
(* differences of representatives are the representatives of the wrapped   *)
(* size_t results, % MAX_ALIGN is exact because MAX_ALIGN divides 2^64,    *)
(* and an unsigned comparison is ULe.  Every representative the model      *)
(* reaches stays far inside TLC's integers.                                *)
(***************************************************************************)
EXTENDS Integers, Sequences, FiniteSets, TLC

VARIABLES heap, a, markers, scratch, last

vars == <<heap, a, markers, scratch, last>>

(***************************************************************************)
(* Program constants.                                                      *)
(***************************************************************************)
NULL == 0

MAX_ALIGN == 16

SIZEOF_ARENA_BLOCK == 24

ALLOC_ARENA_BLOCKSIZE_MIN == 512

ALLOC_ARENA_BLOCKSIZE_MAX == 1048576

\* the largest size_t
SIZE_MAX == 0 - 1

(***************************************************************************)
(* Bounds of the model.                                                    *)
(***************************************************************************)
\* calloc fails (assert, abort) once this many blocks are live
MaxBlocks == 2

\* marker variables the caller keeps
MaxMarkers == 1

\* nesting depth of scratch scopes
MaxScratch == 1

\* the caller stops allocating once stats.peak would pass this
MaxStatsUsed == 750

\* length of the allocation sequences replayed by the round-trip properties
MaxSeqLen == 2

\* request sizes (bytes) of the small-request specifications
Sizes == {100, 300}

\* the bounds and request sizes of the run that reaches three blocks
MaxChainBlocks == 3

MaxChainUsed == 1250

ChainSizes == {300, 500}

\* the same two bounds for the run that grows the chain until the schedule
\* is pinned at ALLOC_ARENA_BLOCKSIZE_MAX
MaxGrowthBlocks == 24

MaxGrowthUsed == 26000000

(***************************************************************************)
(* Helper macros (src/alloc.h:19-26).                                      *)
(***************************************************************************)
round_up_to_multiple(n, m) == LET _a == n + (m - 1) IN _a - (_a % m)

max(x, y) == IF x > y THEN x ELSE y

\* x <= y between two size_t values
ULe(x, y) == IF (x >= 0) = (y >= 0) THEN x <= y ELSE x >= 0

RECURSIVE Shl(_, _)
\* x << k
Shl(x, k) == IF k = 0 THEN x ELSE Shl(2 * x, k - 1)

(***************************************************************************)
(* The heap: a function from the addresses of live blocks to their         *)
(* headers [next, size, used].  A freed block leaves the domain.           *)
(***************************************************************************)
RECURSIVE ChainFrom(_, _)
\* the blocks reached from b by following next, in order
ChainFrom(h, b) == IF b = NULL THEN <<>> ELSE <<b>> \o ChainFrom(h, h[b].next)

Chain(s) == ChainFrom(s.heap, s.a.arena.start)

Range(f) == {f[i] : i \in DOMAIN f}

\* the address calloc hands out: the lowest one not in use
NewAddr(h) == CHOOSE i \in 1..(Cardinality(DOMAIN h) + 1) :
                  /\ i \notin DOMAIN h
                  /\ \A j \in 1..(i - 1) : j \in DOMAIN h

arena_block_alloc(h, size) ==
    LET block == NewAddr(h)
    IN [heap  |-> [b \in DOMAIN h \cup {block} |->
                      IF b = block THEN [next |-> NULL, size |-> size, used |-> 0]
                      ELSE h[b]],
        block |-> block]

arena_block_free(h, block) == [b \in DOMAIN h \ {block} |-> h[b]]

(***************************************************************************)
(* allocator_arena_init                                                    *)
(***************************************************************************)
allocator_arena_init ==
    [arena |-> [start |-> NULL, end |-> NULL, block_seq |-> 0],
     stats |-> [peak |-> 0, reserved |-> 0, used |-> 0]]

(***************************************************************************)
(* allocator_arena_deinit: walk the chain from start, take each block out  *)
(* of the statistics and free it; then start = NULL and block_seq = 0.     *)
(* The end pointer is not assigned.                                        *)
(***************************************************************************)
RECURSIVE DeinitWalk(_, _, _)
DeinitWalk(h, stats, block) ==
    IF block = NULL THEN [heap |-> h, stats |-> stats]
    ELSE LET next       == h[block].next
             size_bytes == SIZEOF_ARENA_BLOCK + h[block].size
             stats1     == [stats EXCEPT !.used     = @ - h[block].used,
                                         !.reserved = @ - size_bytes]
         IN DeinitWalk(arena_block_free(h, block), stats1, next)

allocator_arena_deinit(s) ==
    LET w == DeinitWalk(s.heap, s.a.stats, s.a.arena.start)
    IN [heap |-> w.heap,
        a    |-> [arena |-> [s.a.arena EXCEPT !.start = NULL, !.block_seq = 0],
                  stats |-> w.stats]]

(***************************************************************************)
(* allocator_arena_alloc                                                   *)
(***************************************************************************)
\* a scan that compares the request with the capacity alone
FitsIgnoringUsed(blk, size) == size <= blk.size

\* the test of the first-fit scan
Fits(blk, size) == ULe(size + blk.used, blk.size)

RECURSIVE FirstFitLast(_, _, _)
\* a scan without the break: the last block that can hold size, or NULL
FirstFitLast(h, block, size) ==
    IF block = NULL THEN NULL
    ELSE LET rest == FirstFitLast(h, h[block].next, size)
         IN IF rest # NULL THEN rest
            ELSE IF Fits(h[block], size) THEN block ELSE NULL

RECURSIVE FirstFit(_, _, _)
\* the scan from start: the first block that can hold size, or NULL
FirstFit(h, block, size) ==
    IF block = NULL THEN NULL
    ELSE IF Fits(h[block], size) THEN block
    ELSE FirstFit(h, h[block].next, size)

\* a schedule that doubles at every step: the shift without the >> 1
ScheduledBlocksizePerStep(block_seq) == Shl(ALLOC_ARENA_BLOCKSIZE_MIN, block_seq)

\* blocksize = MIN << (block_seq >> 1)
ScheduledBlocksize(block_seq) == Shl(ALLOC_ARENA_BLOCKSIZE_MIN, block_seq \div 2)

\* a schedule that stands still when the request is oversized
AdvanceOnlyScheduled(block_seq, size) ==
    IF /\ ScheduledBlocksize(block_seq) < ALLOC_ARENA_BLOCKSIZE_MAX
       /\ size <= ScheduledBlocksize(block_seq)
    THEN block_seq + 1 ELSE block_seq

\* if (blocksize < MAX) ++arena->block_seq
AdvanceBlockSeq(block_seq, size) ==
    IF ScheduledBlocksize(block_seq) < ALLOC_ARENA_BLOCKSIZE_MAX
    THEN block_seq + 1 ELSE block_seq

\* the size handed to arena_block_alloc
NewBlockSize(block_seq, size) ==
    IF ~ULe(size, ScheduledBlocksize(block_seq)) THEN size
    ELSE ScheduledBlocksize(block_seq)

RECURSIVE LastOf(_, _)
\* while (last->next) last = last->next
LastOf(h, block) == IF h[block].next = NULL THEN block ELSE LastOf(h, h[block].next)

\* a growth step that links the new block after end instead of walking to
\* the last block
GrowChainAfterEnd(s, size) ==
    LET arena == s.a.arena
        nb    == arena_block_alloc(s.heap, NewBlockSize(arena.block_seq, size))
        block == nb.block
        h1    == IF arena.start = NULL THEN nb.heap
                 ELSE [nb.heap EXCEPT ![arena.end].next = block]
        size_bytes == SIZEOF_ARENA_BLOCK + nb.heap[block].size
    IN [heap  |-> h1,
        a     |-> [arena |-> [start     |-> IF arena.start = NULL THEN block
                                            ELSE arena.start,
                              end       |-> block,
                              block_seq |-> AdvanceBlockSeq(arena.block_seq, size)],
                   stats |-> [s.a.stats EXCEPT !.reserved = @ + size_bytes]],
        block |-> block]

\* the branch taken when the scan found no block: grow the chain by one block
GrowChain(s, size) ==
    LET arena == s.a.arena
        nb    == arena_block_alloc(s.heap, NewBlockSize(arena.block_seq, size))
        block == nb.block
        h1    == IF arena.start = NULL THEN nb.heap
                 ELSE [nb.heap EXCEPT ![LastOf(s.heap, arena.start)].next = block]
        size_bytes == SIZEOF_ARENA_BLOCK + nb.heap[block].size
    IN [heap  |-> h1,
        a     |-> [arena |-> [start     |-> IF arena.start = NULL THEN block
                                            ELSE arena.start,
                              end       |-> block,
                              block_seq |-> AdvanceBlockSeq(arena.block_seq, size)],
                   stats |-> [s.a.stats EXCEPT !.reserved = @ + size_bytes]],
        block |-> block]

\* the bump: ptr = &block->bytes[block->used]; block->used += size; stats
Bump(s, block, size) ==
    LET used == s.a.stats.used + size
    IN [heap   |-> [s.heap EXCEPT ![block].used = @ + size],
        a      |-> [s.a EXCEPT !.stats.used = used,
                               !.stats.peak = max(s.a.stats.peak, used)],
        block  |-> block,
        offset |-> s.heap[block].used]

\* the whole call; n is the requested size.  The result carries the new
\* state, the block and offset of the returned pointer, and whether the
\* chain grew.
allocator_arena_alloc(s, n) ==
    LET size  == round_up_to_multiple(n, MAX_ALIGN)
        found == FirstFit(s.heap, s.a.arena.start, size)
        g     == IF found = NULL THEN GrowChain(s, size)
                 ELSE [heap |-> s.heap, a |-> s.a, block |-> found]
        r     == Bump([heap |-> g.heap, a |-> g.a], g.block, size)
    IN [heap |-> r.heap, a |-> r.a, block |-> r.block, offset |-> r.offset,
        size |-> size, created |-> (found = NULL)]

(***************************************************************************)
(* free and realloc.  A pointer into a block is [block, offset]; the null  *)
(* pointer has block = NULL.                                               *)
(***************************************************************************)
NullPtr == [block |-> NULL, offset |-> 0]

\* the pointers a caller passes: null, or the first byte of a block
Pointers(s) == {NullPtr} \cup {[block |-> b, offset |-> 0] : b \in Range(Chain(s))}

\* a free that gives the bytes from p on back to p's block
FreeRewindsBlock(s, p) ==
    IF p.block = NULL THEN s
    ELSE [heap |-> [s.heap EXCEPT ![p.block].used = p.offset], a |-> s.a]

\* allocator_arena_free: the body is the assert alone
allocator_arena_free(s, p) == s

\* allocator_arena_realloc: the body is the assert alone and the function
\* ends without a return statement, so the value the caller receives is
\* indeterminate: p, null or any other pointer
allocator_arena_realloc(s, p) ==
    {[heap |-> s.heap, a |-> s.a, ptr |-> q] : q \in Pointers(s) \cup {p}}

\* arena_realloc of the standalone arena: return p
arena_realloc(s, p) == {[heap |-> s.heap, a |-> s.a, ptr |-> p]}

(***************************************************************************)
(* arena_reset, arena_snapshot, arena_rewind, scratch scopes               *)
(***************************************************************************)
\* a reset that clears the counters and leaves end where it was
ResetKeepsEnd(s) ==
    [heap |-> [b \in DOMAIN s.heap |->
                  IF b \in Range(Chain(s)) THEN [s.heap[b] EXCEPT !.used = 0]
                  ELSE s.heap[b]],
     a    |-> s.a]

\* a reset whose loop starts at end instead of start
ResetFromEnd(s) ==
    [heap |-> [b \in DOMAIN s.heap |->
                  IF b \in Range(ChainFrom(s.heap, s.a.arena.end))
                  THEN [s.heap[b] EXCEPT !.used = 0]
                  ELSE s.heap[b]],
     a    |-> [s.a EXCEPT !.arena.end = s.a.arena.start]]

\* a reset whose loop starts at the block after start
ResetSkipsStart(s) ==
    LET chain == Range(Chain(s)) \ {s.a.arena.start}
    IN [heap |-> [b \in DOMAIN s.heap |->
                     IF b \in chain THEN [s.heap[b] EXCEPT !.used = 0]
                     ELSE s.heap[b]],
        a    |-> [s.a EXCEPT !.arena.end = s.a.arena.start]]

arena_reset(s) ==
    LET chain == Range(Chain(s))
    IN [heap |-> [b \in DOMAIN s.heap |->
                     IF b \in chain THEN [s.heap[b] EXCEPT !.used = 0]
                     ELSE s.heap[b]],
        a    |-> [s.a EXCEPT !.arena.end = s.a.arena.start]]

\* what a read of block->used can yield when block has been freed
FreedWord == {0, MAX_ALIGN}

\* the markers arena_snapshot can return: one, unless end dangles and the
\* read of end->used is a read of freed memory
arena_snapshot(s) ==
    LET end == s.a.arena.end
    IN IF end = NULL THEN {[block |-> end, offset |-> 0]}
       ELSE IF end \in DOMAIN s.heap
            THEN {[block |-> end, offset |-> s.heap[end].used]}
       ELSE {[block |-> end, offset |-> w] : w \in FreedWord}

\* a rewind that restores the counters and leaves end where it was
RewindKeepsEnd(s, m) ==
    IF m.block = NULL THEN arena_reset(s)
    ELSE [heap |-> [b \in DOMAIN s.heap |->
                       IF b = m.block THEN [s.heap[b] EXCEPT !.used = m.offset]
                       ELSE IF b \in Range(ChainFrom(s.heap, s.heap[m.block].next))
                       THEN [s.heap[b] EXCEPT !.used = 0]
                       ELSE s.heap[b]],
          a    |-> s.a]

\* a rewind whose clearing loop starts at start: every block other than
\* m.block is emptied, the blocks before it included
RewindClearsFromStart(s, m) ==
    IF m.block = NULL THEN arena_reset(s)
    ELSE [heap |-> [b \in DOMAIN s.heap |->
                       IF b = m.block THEN [s.heap[b] EXCEPT !.used = m.offset]
                       ELSE IF b \in Range(Chain(s))
                       THEN [s.heap[b] EXCEPT !.used = 0]
                       ELSE s.heap[b]],
          a    |-> [s.a EXCEPT !.arena.end = m.block]]

arena_rewind(s, m) ==
    IF m.block = NULL THEN arena_reset(s)
    ELSE LET after == Range(ChainFrom(s.heap, s.heap[m.block].next))
         IN [heap |-> [b \in DOMAIN s.heap |->
                          IF b = m.block THEN [s.heap[b] EXCEPT !.used = m.offset]
                          ELSE IF b \in after THEN [s.heap[b] EXCEPT !.used = 0]
                          ELSE s.heap[b]],
             a    |-> [s.a EXCEPT !.arena.end = m.block]]

\* arena_temp_t values; there is one arena, named "a"
arena_scratch_init(s) == {[marker |-> m, arena |-> "a"] : m \in arena_snapshot(s)}

arena_scratch_deinit(s, tmp) == arena_rewind(s, tmp.marker)

(***************************************************************************)
(* The state machine.  heap and a are the program's memory; markers and    *)
(* scratch are the caller's marker variables and its stack of open scratch *)
(* scopes; last records the latest call and what it returned.              *)
(***************************************************************************)
Cur == [heap |-> heap, a |-> a]

Unset == [block |-> NULL, offset |-> 0 - 1]

NoMarker == [block |-> NULL, offset |-> 0]

\* op: the call; rep: the call before it was the same call; req, size,
\* block, offset, created: the requested and the rounded size, the returned
\* pointer and whether the chain grew (alloc); g, n: block_seq and the
\* number of blocks before the call; e: end before the call (alloc); m: the
\* marker returned (snapshot, scratch_init) or used (rewind, scratch_deinit),
\* or the pointer passed (free, realloc)
Call(op, req, size, block, offset, created, m) ==
    [op |-> op, rep |-> (last.op = op), req |-> req, size |-> size,
     block |-> block, offset |-> offset, created |-> created,
     g |-> a.arena.block_seq, n |-> Len(Chain(Cur)),
     e |-> IF op = "alloc" THEN a.arena.end ELSE NULL, m |-> m]

Init ==
    /\ heap = <<>>
    /\ a = allocator_arena_init
    /\ markers = [i \in 1..MaxMarkers |-> Unset]
    /\ scratch = <<>>
    /\ last = [op |-> "init", rep |-> FALSE, req |-> 0, size |-> 0,
               block |-> NULL, offset |-> 0, created |-> FALSE, g |-> 0,
               n |-> 0, e |-> NULL, m |-> NoMarker]

\* a marker the caller may still pass to arena_rewind: it was captured and
\* its block, if any, is a block of the chain
Usable(m) == m # Unset /\ (m.block = NULL \/ m.block \in Range(Chain(Cur)))

\* alloc(n): no step when calloc fails (maxBlocks live blocks) or the
\* caller's budget maxUsed is spent
Alloc(n, maxBlocks, maxUsed) ==
    LET r == allocator_arena_alloc(Cur, n)
    IN /\ a.stats.peak + r.size <= maxUsed
       /\ r.created => Cardinality(DOMAIN heap) < maxBlocks
       /\ heap' = r.heap
       /\ a' = r.a
       /\ last' = Call("alloc", n, r.size, r.block, r.offset, r.created, NoMarker)
       /\ UNCHANGED <<markers, scratch>>

AllocSmall == \E n \in Sizes : Alloc(n, MaxBlocks, MaxStatsUsed)

Reset ==
    LET r == arena_reset(Cur)
    IN /\ heap' = r.heap
       /\ a' = r.a
       /\ last' = Call("reset", 0, 0, NULL, 0, FALSE, NoMarker)
       /\ UNCHANGED <<markers, scratch>>

Snapshot ==
    \E i \in 1..MaxMarkers : \E m \in arena_snapshot(Cur) :
       /\ markers' = [markers EXCEPT ![i] = m]
       /\ last' = Call("snapshot", 0, 0, NULL, 0, FALSE, m)
       /\ UNCHANGED <<heap, a, scratch>>

Rewind ==
    \E i \in 1..MaxMarkers :
       /\ Usable(markers[i])
       /\ LET r == arena_rewind(Cur, markers[i])
          IN /\ heap' = r.heap
             /\ a' = r.a
       /\ last' = Call("rewind", 0, 0, NULL, 0, FALSE, markers[i])
       /\ UNCHANGED <<markers, scratch>>

ScratchInit ==
    /\ Len(scratch) < MaxScratch
    /\ \E tmp \in arena_scratch_init(Cur) :
          /\ scratch' = Append(scratch, tmp)
          /\ last' = Call("scratch_init", 0, 0, NULL, 0, FALSE, tmp.marker)
    /\ UNCHANGED <<heap, a, markers>>

\* scopes close innermost first
ScratchDeinit ==
    /\ scratch # <<>>
    /\ LET tmp == scratch[Len(scratch)]
       IN /\ Usable(tmp.marker)
          /\ LET r == arena_scratch_deinit(Cur, tmp)
             IN /\ heap' = r.heap
                /\ a' = r.a
          /\ last' = Call("scratch_deinit", 0, 0, NULL, 0, FALSE, tmp.marker)
    /\ scratch' = SubSeq(scratch, 1, Len(scratch) - 1)
    /\ UNCHANGED markers

\* allocator_deinit; the caller's markers and scopes end with the arena
Deinit ==
    LET r == allocator_arena_deinit(Cur)
    IN /\ heap' = r.heap
       /\ a' = r.a
       /\ markers' = [i \in 1..MaxMarkers |-> Unset]
       /\ scratch' = <<>>
       /\ last' = Call("deinit", 0, 0, NULL, 0, FALSE, NoMarker)

\* allocator_init on an arena that owns no block
AllocatorInit ==
    /\ a.arena.start = NULL
    /\ a' = allocator_arena_init
    /\ last' = Call("init", 0, 0, NULL, 0, FALSE, NoMarker)
    /\ UNCHANGED <<heap, markers, scratch>>

\* the arena operations, teardown and re-creation included
Next ==
    \/ AllocSmall
    \/ Reset
    \/ Snapshot
    \/ Rewind
    \/ ScratchInit
    \/ ScratchDeinit
    \/ Deinit
    \/ AllocatorInit

Spec == Init /\ [][Next]_vars

\* the operations of a live arena: no teardown
NextArena ==
    \/ AllocSmall
    \/ Reset
    \/ Snapshot
    \/ Rewind
    \/ ScratchInit
    \/ ScratchDeinit

SpecArena == Init /\ [][NextArena]_vars

TypeOK ==
    /\ \A b \in DOMAIN heap : heap[b].next \in DOMAIN heap \cup {NULL}
    /\ a.arena.start \in DOMAIN heap \cup {NULL}
    /\ Len(scratch) <= MaxScratch

(***************************************************************************)
(* Growth of the chain up to the pinned schedule.  The caller makes small  *)
(* requests while its small budget lasts, then asks for                    *)
(* ALLOC_ARENA_BLOCKSIZE_MAX bytes at a time, which no scheduled block can *)
(* hold before the schedule is pinned, and once it is pinned also for one  *)
(* alignment unit more.                                                    *)
(***************************************************************************)
GrowthRequests ==
    IF a.stats.peak + round_up_to_multiple(300, MAX_ALIGN) <= MaxStatsUsed
    THEN Sizes \cup {ALLOC_ARENA_BLOCKSIZE_MAX}
    ELSE IF ScheduledBlocksize(a.arena.block_seq) < ALLOC_ARENA_BLOCKSIZE_MAX
    THEN {ALLOC_ARENA_BLOCKSIZE_MAX}
    ELSE {ALLOC_ARENA_BLOCKSIZE_MAX, ALLOC_ARENA_BLOCKSIZE_MAX + MAX_ALIGN}

AllocGrowth == \E n \in GrowthRequests : Alloc(n, MaxGrowthBlocks, MaxGrowthUsed)

NextGrowth ==
    \/ AllocGrowth
    \/ Reset

SpecGrowth == Init /\ [][NextGrowth]_vars

(***************************************************************************)
(* Replaying a sequence of requests from a state.                          *)
(***************************************************************************)
AllocSeqs == UNION {[1..k -> Sizes] : k \in 1..MaxSeqLen}

RECURSIVE RunAllocs(_, _, _)
\* the requests A[i..] made in order from state s: the final state and the
\* <<block, offset>> of each pointer returned
RunAllocs(s, A, i) ==
    IF i > Len(A) THEN [s |-> s, places |-> <<>>]
    ELSE LET r    == allocator_arena_alloc(s, A[i])
             rest == RunAllocs([heap |-> r.heap, a |-> r.a], A, i + 1)
         IN [s |-> rest.s, places |-> <<(<<r.block, r.offset>>)>> \o rest.places]

ChainOf(h, arena) == ChainFrom(h, arena.start)

(***************************************************************************)
(* C1  Capacity invariant: under allocate, snapshot, reset, rewind with    *)
(* any captured marker (LIFO or not) and scratch enter/exit, every block   *)
(* of the chain has 0 <= used <= capacity.                                 *)
(***************************************************************************)
C1_CapacityInvariant ==
    \A b \in Range(Chain(Cur)) : 0 <= heap[b].used /\ heap[b].used <= heap[b].size

\* a rewind to a marker in the first block while a scratch scope opened in
\* the second block is still open
C1_Witness ==
    /\ last.op = "rewind"
    /\ Len(Chain(Cur)) = 2
    /\ last.m.block = Chain(Cur)[1]
    /\ last.m.offset > 0
    /\ scratch # <<>>
    /\ scratch[1].marker.block = Chain(Cur)[2]
    /\ scratch[1].marker.offset > 0

(***************************************************************************)
(* C2  Rewind round trip: from every reachable state, snapshot S, the      *)
(* requests A, rewind(S) and the requests A again put each allocation in   *)
(* the same block at the same offset both times.                           *)
(***************************************************************************)
C2_RewindRoundTrip ==
    \A S \in arena_snapshot(Cur) : \A A \in AllocSeqs :
        LET first  == RunAllocs(Cur, A, 1)
            second == RunAllocs(arena_rewind(first.s, S), A, 1)
        IN first.places = second.places

(***************************************************************************)
(* C3  Scratch scope reclamation: from every reachable state, after        *)
(* scratch enter, any allocations and scratch exit, every block that       *)
(* existed at entry has its used and capacity as at entry, every block     *)
(* created inside has used = 0, and no block was released.                 *)
(***************************************************************************)
C3_ScratchReclaims ==
    \A tmp \in arena_scratch_init(Cur) : \A A \in AllocSeqs :
        LET inside == RunAllocs(Cur, A, 1).s
            out    == arena_scratch_deinit(inside, tmp)
        IN /\ DOMAIN heap \subseteq DOMAIN out.heap
           /\ \A b \in DOMAIN heap :
                 /\ out.heap[b].used = heap[b].used
                 /\ out.heap[b].size = heap[b].size
           /\ \A b \in DOMAIN out.heap \ DOMAIN heap : out.heap[b].used = 0
           /\ DOMAIN out.heap = DOMAIN inside.heap
           /\ \A b \in DOMAIN inside.heap : out.heap[b].size = inside.heap[b].size

(***************************************************************************)
(* C4  Oversized request, as claimed: when no block fits and the aligned   *)
(* size exceeds the capacity scheduled for the current step, exactly one   *)
(* block is created, its capacity is the aligned size, and block_seq is    *)
(* the same after the call as before it.                                   *)
(***************************************************************************)
Oversized == last.op = "alloc" /\ last.created /\ last.size > ScheduledBlocksize(last.g)

OneBlockOfRequestSize ==
    /\ Len(Chain(Cur)) = last.n + 1
    /\ Cardinality(DOMAIN heap) = last.n + 1
    /\ Chain(Cur)[last.n + 1] = last.block
    /\ heap[last.block].size = last.size

C4_OversizedKeepsStep ==
    Oversized => OneBlockOfRequestSize /\ a.arena.block_seq = last.g

(***************************************************************************)
(* C4 as amended: exactly one block of the aligned size is created, and    *)
(* block_seq advances by one as for any new block, staying the same only   *)
(* when the scheduled capacity has reached ALLOC_ARENA_BLOCKSIZE_MAX.      *)
(***************************************************************************)
C4_OversizedAdvancesStep ==
    Oversized =>
        /\ OneBlockOfRequestSize
        /\ a.arena.block_seq =
              IF ScheduledBlocksize(last.g) < ALLOC_ARENA_BLOCKSIZE_MAX
              THEN last.g + 1 ELSE last.g

\* an oversized request below the pinned schedule: block_seq has advanced
C4_Witness ==
    /\ Oversized
    /\ ScheduledBlocksize(last.g) < ALLOC_ARENA_BLOCKSIZE_MAX
    /\ last.g > 0
    /\ a.arena.block_seq = last.g + 1

\* an oversized request at the pinned schedule: block_seq stays
C4_WitnessPinned ==
    /\ Oversized
    /\ ScheduledBlocksize(last.g) = ALLOC_ARENA_BLOCKSIZE_MAX
    /\ a.arena.block_seq = last.g

(***************************************************************************)
(* C5  Growth schedule: a block created for a request that does not exceed *)
(* the scheduled capacity has capacity min(MIN << (g / 2), MAX), g being   *)
(* block_seq before the call, and block_seq becomes g + 1 unless the       *)
(* scheduled capacity equals MAX, when it stays g; the scheduled capacity  *)
(* never exceeds MAX; and a fresh arena given 100, 300, 300 bytes ends     *)
(* with exactly two blocks, both of capacity 512.                          *)
(***************************************************************************)
capacity_for_step(g) ==
    LET c == Shl(ALLOC_ARENA_BLOCKSIZE_MIN, g \div 2)
    IN IF c < ALLOC_ARENA_BLOCKSIZE_MAX THEN c ELSE ALLOC_ARENA_BLOCKSIZE_MAX

Scheduled == last.op = "alloc" /\ last.created /\ last.size <= capacity_for_step(last.g)

Fresh == [heap |-> <<>>, a |-> allocator_arena_init]

C5_GrowthSchedule ==
    /\ Scheduled =>
          /\ Len(Chain(Cur)) = last.n + 1
          /\ heap[last.block].size = capacity_for_step(last.g)
          /\ a.arena.block_seq =
                IF capacity_for_step(last.g) = ALLOC_ARENA_BLOCKSIZE_MAX
                THEN last.g ELSE last.g + 1
    /\ ScheduledBlocksize(a.arena.block_seq) <= ALLOC_ARENA_BLOCKSIZE_MAX
    /\ LET end == RunAllocs(Fresh, <<100, 300, 300>>, 1).s
       IN [i \in 1..Len(Chain(end)) |-> end.heap[Chain(end)[i]].size] = <<512, 512>>

\* the third request of 100, 300, 300 has just created the second block
C5_Witness ==
    /\ Scheduled
    /\ last.g = 1
    /\ last.size = 304
    /\ a.stats.used = 112 + 304 + 304
    /\ Len(Chain(Cur)) = 2
    /\ heap[Chain(Cur)[1]].used = 112 + 304

\* a block created on schedule when the schedule is pinned at MAX
C5_WitnessPinned ==
    /\ Scheduled
    /\ capacity_for_step(last.g) = ALLOC_ARENA_BLOCKSIZE_MAX
    /\ heap[last.block].size = ALLOC_ARENA_BLOCKSIZE_MAX
    /\ a.arena.block_seq = last.g

(***************************************************************************)
(* C6  Teardown: after deinit the arena is in the state init produces,     *)
(* start = NULL, end = NULL and block_seq = 0, and holds no reference to a *)
(* released block.                                                         *)
(***************************************************************************)
C6_TeardownIsInitial ==
    last.op = "deinit" =>
        /\ a.arena = allocator_arena_init.arena
        /\ a.arena.start \in DOMAIN heap \cup {NULL}
        /\ a.arena.end \in DOMAIN heap \cup {NULL}

(***************************************************************************)
(* C7  Reset effect: reset sets used = 0 on every block of the chain and   *)
(* end = start, and leaves the blocks, their order, their capacities and   *)
(* block_seq unchanged.                                                    *)
(***************************************************************************)
C7_ResetEffect ==
    [][last'.op = "reset" =>
          /\ \A b \in Range(ChainOf(heap', a'.arena)) : heap'[b].used = 0
          /\ a'.arena.end = a'.arena.start
          /\ ChainOf(heap', a'.arena) = ChainOf(heap, a.arena)
          /\ a'.arena.start = a.arena.start
          /\ DOMAIN heap' = DOMAIN heap
          /\ \A b \in DOMAIN heap : /\ heap'[b].size = heap[b].size
                                    /\ heap'[b].next = heap[b].next
          /\ a'.arena.block_seq = a.arena.block_seq]_vars

\* a reset of a chain of two blocks, after allocations, that was not
\* preceded by another reset
C7_Witness ==
    /\ last.op = "reset"
    /\ ~last.rep
    /\ last.n = 2
    /\ a.stats.used > 0
    /\ a.arena.end = a.arena.start
    /\ \A b \in DOMAIN heap : heap[b].used = 0

(***************************************************************************)
(* C8  Idempotent reset: a reset that follows a reset immediately leaves   *)
(* the whole arena state (every block's header, the chain, start, end,     *)
(* block_seq) as the first reset left it.                                  *)
(***************************************************************************)
C8_ResetIdempotent ==
    [][(last.op = "reset" /\ last'.op = "reset") => (heap' = heap /\ a'.arena = a.arena)]_vars

\* the second of two resets in a row, on a chain of two blocks
C8_Witness ==
    /\ last.op = "reset"
    /\ last.rep
    /\ last.n = 2
    /\ a.stats.used > 0

(***************************************************************************)
(* C9  Snapshot: in every state reachable by init, allocate, reset,        *)
(* rewind, scratch enter/exit and teardown, snapshot returns (end,         *)
(* end.used) when the chain has a block and (NULL, 0) when it has none.    *)
(***************************************************************************)
C9_SnapshotMarker ==
    last.op = "snapshot" =>
        last.m = IF Chain(Cur) # <<>>
                 THEN [block |-> a.arena.end, offset |-> heap[a.arena.end].used]
                 ELSE [block |-> NULL, offset |-> 0]

(***************************************************************************)
(* C10  Tail invariant, as claimed: whenever the chain has a block, end is *)
(* the final block of the chain read from start.                           *)
(***************************************************************************)
C10_TailIsFinalBlock ==
    Chain(Cur) # <<>> => a.arena.end = Chain(Cur)[Len(Chain(Cur))]

(***************************************************************************)
(* C10 as amended: whenever the chain has a block, end is a block of the   *)
(* chain: the final block right after an allocate that created a block,    *)
(* start right after a reset, and the marker's block right after a rewind  *)
(* or scratch exit (start if the marker's block is NULL).                  *)
(***************************************************************************)
C10_TailInChain ==
    Chain(Cur) # <<>> =>
        /\ a.arena.end \in Range(Chain(Cur))
        /\ (last.op = "alloc" /\ last.created) =>
               a.arena.end = Chain(Cur)[Len(Chain(Cur))]
        /\ last.op = "reset" => a.arena.end = a.arena.start
        /\ last.op \in {"rewind", "scratch_deinit"} =>
               a.arena.end = IF last.m.block = NULL THEN a.arena.start
                             ELSE last.m.block

\* a rewind has moved end back to the first of two blocks
C10_Witness ==
    /\ last.op = "rewind"
    /\ last.m.block # NULL
    /\ Len(Chain(Cur)) = 2
    /\ a.arena.end = Chain(Cur)[1]
    /\ a.arena.end # Chain(Cur)[2]

(***************************************************************************)
(* A live arena with requests large enough to reach three blocks.          *)
(***************************************************************************)
AllocChain == \E n \in ChainSizes : Alloc(n, MaxChainBlocks, MaxChainUsed)

NextChain ==
    \/ AllocChain
    \/ Reset
    \/ Snapshot
    \/ Rewind
    \/ ScratchInit
    \/ ScratchDeinit

SpecChain == Init /\ [][NextChain]_vars

(***************************************************************************)
(* C11  Chain invariant: under allocate, snapshot, reset, rewind and       *)
(* scratch enter/exit the chain read from start is the blocks in creation  *)
(* order (block k of the chain is the k-th block calloc returned); a block *)
(* is created only by an allocate for which no existing block has room, it *)
(* is appended after the final block of the chain, also when end is an     *)
(* earlier block, and no block is removed, reordered or resized.           *)
(***************************************************************************)
C11_ChainInvariant ==
    [][LET old == ChainOf(heap, a.arena)
           new == ChainOf(heap', a'.arena)
       IN /\ new = [i \in 1..Len(new) |-> i]
          /\ Range(new) = DOMAIN heap'
          /\ \A b \in DOMAIN heap : b \in DOMAIN heap' /\ heap'[b].size = heap[b].size
          /\ \/ new = old
             \/ /\ last'.op = "alloc"
                /\ last'.created
                /\ \A b \in Range(old) : last'.size + heap[b].used > heap[b].size
                /\ last'.block \notin DOMAIN heap
                /\ new = Append(old, last'.block)]_vars

\* a third block has been appended while end was the first block
C11_Witness ==
    /\ last.op = "alloc"
    /\ last.created
    /\ last.n = 2
    /\ last.e = 1
    /\ Chain(Cur) = <<1, 2, 3>>
    /\ a.arena.end = 3

(***************************************************************************)
(* The facade's free and realloc, and the standalone arena's realloc, on a *)
(* live arena.                                                             *)
(***************************************************************************)
Free ==
    \E p \in Pointers(Cur) :
       LET r == allocator_arena_free(Cur, p)
       IN /\ heap' = r.heap
          /\ a' = r.a
          /\ last' = Call("free", 0, 0, NULL, 0, FALSE, p)
          /\ UNCHANGED <<markers, scratch>>

Realloc ==
    \E p \in Pointers(Cur) : \E r \in allocator_arena_realloc(Cur, p) :
       /\ heap' = r.heap
       /\ a' = r.a
       /\ last' = Call("realloc", 0, 0, r.ptr.block, r.ptr.offset, FALSE, p)
       /\ UNCHANGED <<markers, scratch>>

ArenaRealloc ==
    \E p \in Pointers(Cur) : \E r \in arena_realloc(Cur, p) :
       /\ heap' = r.heap
       /\ a' = r.a
       /\ last' = Call("arena_realloc", 0, 0, r.ptr.block, r.ptr.offset, FALSE, p)
       /\ UNCHANGED <<markers, scratch>>

NextFacade ==
    \/ AllocSmall
    \/ Free
    \/ Realloc
    \/ ArenaRealloc
    \/ Reset
    \/ Snapshot
    \/ Rewind

SpecFacade == Init /\ [][NextFacade]_vars

(***************************************************************************)
(* C12  Free is a no-op: for any pointer, free leaves every block's        *)
(* header, the chain, start, end, block_seq and the statistics unchanged.  *)
(***************************************************************************)
C12_FreeIsNoOp ==
    [][last'.op = "free" => (heap' = heap /\ a' = a)]_vars

\* a free of the first byte of a block that holds allocations
C12_Witness ==
    /\ last.op = "free"
    /\ last.m.block # NULL
    /\ heap[last.m.block].used > 0
    /\ a.stats.used > 0

(***************************************************************************)
(* C13  Realloc is an identity passthrough: for every pointer p, realloc   *)
(* returns p, in the facade (allocator_arena_realloc) and in the           *)
(* standalone arena (arena_realloc).                                       *)
(***************************************************************************)
C13_ReallocReturnsArgument ==
    last.op \in {"realloc", "arena_realloc"} =>
        [block |-> last.block, offset |-> last.offset] = last.m

(***************************************************************************)
(* C14  Statistics bound: under allocate, reset, rewind and scratch         *)
(* enter/exit on the facade allocator, stats.used <= stats.reserved.       *)
(***************************************************************************)
C14_UsedWithinReserved == a.stats.used <= a.stats.reserved

(***************************************************************************)
(* C15  Rewind reclaims nothing allocated before the marker: from every    *)
(* reachable state, after snapshot S, any allocations (and no reset,       *)
(* rewind or teardown) and rewind(S), every block's used is at least what  *)
(* it was when S was captured.                                             *)
(***************************************************************************)
C15_RewindKeepsEarlierAllocations ==
    \A S \in arena_snapshot(Cur) : \A A \in AllocSeqs \cup {<<>>} :
        LET out == arena_rewind(RunAllocs(Cur, A, 1).s, S)
        IN \A b \in DOMAIN heap : out.heap[b].used >= heap[b].used

(***************************************************************************)
(* C16  First-fit placement: an allocation is served from the first block  *)
(* in chain order whose used plus the rounded size is within its capacity, *)
(* at offset = that block's used before the call, advancing only that      *)
(* block's used by the rounded size; a block is created if and only if no  *)
(* block passes the test, at most one per call, and every other block's    *)
(* used and capacity are unchanged.                                        *)
(***************************************************************************)
C16_FirstFitPlacement ==
    [][last'.op = "alloc" =>
        LET old     == Chain(Cur)
            size    == last'.size
            fitting == {i \in 1..Len(old) :
                           heap[old[i]].used + size <= heap[old[i]].size}
            b       == last'.block
        IN /\ \A c \in DOMAIN heap :
                 /\ c \in DOMAIN heap'
                 /\ heap'[c].size = heap[c].size
                 /\ c # b => heap'[c].used = heap[c].used
           /\ last'.created <=> fitting = {}
           /\ fitting # {} =>
                 /\ b = old[CHOOSE i \in fitting : \A j \in fitting : i <= j]
                 /\ DOMAIN heap' = DOMAIN heap
                 /\ last'.offset = heap[b].used
                 /\ heap'[b].used = heap[b].used + size
           /\ fitting = {} =>
                 /\ DOMAIN heap' = DOMAIN heap \cup {b}
                 /\ b \notin DOMAIN heap
                 /\ last'.offset = 0
                 /\ heap'[b].used = size
                 /\ heap'[b].size >= size]_vars

\* an allocation served by the second block, past a first block that holds
\* data and cannot take the request
C16_Witness ==
    /\ last.op = "alloc" /\ ~last.created
    /\ Len(Chain(Cur)) >= 2
    /\ last.block = Chain(Cur)[2]
    /\ heap[Chain(Cur)[1]].used > 0
    /\ heap[Chain(Cur)[1]].used + last.size > heap[Chain(Cur)[1]].size

(***************************************************************************)
(* C17  Rewind effect: rewind(m) with m.block = NULL produces exactly the  *)
(* state reset produces (every used 0, end = start); rewind(m) with        *)
(* m.block in the chain sets m.block.used = m.offset, sets used = 0 on     *)
(* every block after m.block, sets end = m.block, and leaves the used of   *)
(* every block before m.block, the number and order of blocks, every       *)
(* capacity, start and block_seq unchanged.                                *)
(***************************************************************************)
C17_RewindEffect ==
    [][last'.op = "rewind" =>
        LET m     == last'.m
            old   == Chain(Cur)
            new   == ChainOf(heap', a'.arena)
            k     == CHOOSE i \in 1..Len(old) : old[i] = m.block
        IN /\ new = old
           /\ DOMAIN heap' = DOMAIN heap
           /\ \A b \in DOMAIN heap : heap'[b].size = heap[b].size
           /\ a'.arena.start = a.arena.start
           /\ a'.arena.block_seq = a.arena.block_seq
           /\ IF m.block = NULL
              THEN /\ \A i \in 1..Len(old) : heap'[old[i]].used = 0
                   /\ a'.arena.end = a.arena.start
              ELSE /\ m.block \in Range(old)
                   /\ \A i \in 1..Len(old) :
                         heap'[old[i]].used =
                            IF i < k THEN heap[old[i]].used
                            ELSE IF i = k THEN m.offset ELSE 0
                   /\ a'.arena.end = m.block]_vars

\* a rewind to a marker in the second of three blocks: the first block
\* keeps its data, the second is back at the marker, the third is empty
C17_Witness ==
    /\ last.op = "rewind"
    /\ Len(Chain(Cur)) = 3
    /\ last.m.block = Chain(Cur)[2]
    /\ a.arena.end = Chain(Cur)[2]
    /\ heap[Chain(Cur)[1]].used > 0
    /\ last.m.offset > 0
    /\ heap[Chain(Cur)[2]].used = last.m.offset
    /\ heap[Chain(Cur)[3]].used = 0

(***************************************************************************)
(* C18  No overlap of live allocations: every region returned by an        *)
(* allocation lies inside the capacity of its block (offset + rounded size *)
(* <= capacity), and two regions of non-zero size returned with no reset,  *)
(* rewind or teardown between the two calls are disjoint.                  *)
(***************************************************************************)
\* requests of any size_t value: the small sizes and one 32 bytes below 2^64
WideSizes == Sizes \cup {SIZE_MAX - 31}

WideSeqs == UNION {[1..k -> WideSizes] : k \in 1..MaxSeqLen}

\* the region [offset, offset + size) of the i-th pointer of a replay; a
\* negative size stands for a length of 2^63 bytes or more
RegionOf(run, A, i) ==
    [block  |-> run.places[i][1],
     offset |-> run.places[i][2],
     size   |-> round_up_to_multiple(A[i], MAX_ALIGN)]

RegionInside(h, r) ==
    r.size >= 0 /\ r.offset + r.size <= h[r.block].size

RegionsDisjoint(r, q) ==
    \/ r.block # q.block
    \/ r.size >= 0 /\ r.offset + r.size <= q.offset
    \/ q.size >= 0 /\ q.offset + q.size <= r.offset

\* every calloc of the replay succeeded: no block of 2^63 bytes or more
Served(run) == \A b \in DOMAIN run.s.heap : run.s.heap[b].size >= 0

C18_RegionsInsideAndDisjoint ==
    \A A \in WideSeqs :
        LET run == RunAllocs(Cur, A, 1)
        IN Served(run) =>
              /\ \A i \in 1..Len(A) : RegionInside(run.s.heap, RegionOf(run, A, i))
              /\ \A i, j \in 1..Len(A) :
                    (i < j /\ RegionOf(run, A, i).size # 0
                           /\ RegionOf(run, A, j).size # 0)
                    => RegionsDisjoint(RegionOf(run, A, i), RegionOf(run, A, j))

\* the same two properties for requests that stay far below the wrap
C18_SmallRegionsInsideAndDisjoint ==
    \A A \in AllocSeqs :
        LET run == RunAllocs(Cur, A, 1)
        IN /\ \A i \in 1..Len(A) : RegionInside(run.s.heap, RegionOf(run, A, i))
           /\ \A i, j \in 1..Len(A) :
                 i < j => RegionsDisjoint(RegionOf(run, A, i), RegionOf(run, A, j))

(***************************************************************************)
(* C19  Replay after reset reuses the pool: from a freshly initialised     *)
(* arena, performing an allocation sequence A, then reset, then A again    *)
(* creates no block during the second pass and places each allocation in   *)
(* the same block at the same offset as in the first pass.  The formula    *)
(* states it for every empty pool the arena reaches: the fresh arena (the  *)
(* initial state) and every later state in which no block holds data.      *)
(***************************************************************************)
ReplaySeqs == UNION {[1..k -> ChainSizes] : k \in 1..MaxSeqLen}

EmptyPool == \A b \in Range(Chain(Cur)) : heap[b].used = 0

C19_ReplayAfterReset ==
    EmptyPool =>
    \A A \in ReplaySeqs :
        LET first  == RunAllocs(Cur, A, 1)
            second == RunAllocs(arena_reset(first.s), A, 1)
        IN /\ second.places = first.places
           /\ DOMAIN second.s.heap = DOMAIN first.s.heap
           /\ Chain(second.s) = Chain(first.s)
           /\ second.s.a.stats.reserved = first.s.a.stats.reserved

\* 300, 300, reset, 300, 300: the fourth allocation has just been placed
\* at the start of the second block, which the second allocation created
C19_Witness ==
    /\ last.op = "alloc" /\ ~last.created
    /\ Len(Chain(Cur)) = 2
    /\ last.block = Chain(Cur)[2]
    /\ last.offset = 0
    /\ heap[Chain(Cur)[1]].used = 304
    /\ heap[Chain(Cur)[2]].used = 304
    /\ a.stats.used = 4 * 304

(***************************************************************************)
(* C20  Alignment invariant: an allocation advances the chosen block's     *)
(* used by the smallest multiple of MAX_ALIGN that is >= the requested     *)
(* size, and in every state reached by allocate, snapshot, reset, rewind   *)
(* and scratch enter/exit every block's used, every marker offset and      *)
(* every offset returned by allocate is a multiple of MAX_ALIGN.           *)
(***************************************************************************)
\* z is the smallest multiple of MAX_ALIGN that is >= n, as size_t values
IsRoundedUp(n, z) == z % MAX_ALIGN = 0 /\ ULe(n, z) /\ z - n \in 0..(MAX_ALIGN - 1)

\* requests of any size_t value, the largest included
AnySizes == WideSizes \cup {SIZE_MAX}

\* how far alloc(n) from the current state advances used in the block it
\* chooses
Advance(n) ==
    LET r == allocator_arena_alloc(Cur, n)
    IN r.heap[r.block].used - (IF r.created THEN 0 ELSE heap[r.block].used)

\* alloc(n) from the current state returns: calloc was not asked for 2^63
\* bytes or more
Returns(n) ==
    LET r == allocator_arena_alloc(Cur, n)
    IN \A b \in DOMAIN r.heap : r.heap[b].size >= 0

AllOffsetsAligned ==
    /\ \A b \in DOMAIN heap : heap[b].used % MAX_ALIGN = 0
    /\ \A i \in DOMAIN markers :
          markers[i] # Unset => markers[i].offset % MAX_ALIGN = 0
    /\ \A i \in DOMAIN scratch : scratch[i].marker.offset % MAX_ALIGN = 0
    /\ last.op \in {"alloc", "snapshot"} =>
          last.offset % MAX_ALIGN = 0 /\ last.m.offset % MAX_ALIGN = 0

C20_AlignmentInvariant ==
    /\ AllOffsetsAligned
    /\ \A n \in AnySizes : Returns(n) => IsRoundedUp(n, Advance(n))

\* the same for the requests that rounding up does not wrap
C20_AlignmentOfSmallRequests ==
    /\ AllOffsetsAligned
    /\ \A n \in WideSizes : Returns(n) => IsRoundedUp(n, Advance(n))
    /\ last.op = "alloc" =>
          /\ IsRoundedUp(last.req, last.size)
          /\ heap[last.block].used = last.offset + last.size
====
